---- MODULE Spec2Model ----
(***************************************************************************)
(* Model of the config-swap launch core of KLGame_Launcher:                *)
(*   core/config_swapper.py   ConfigSwapper.apply / ConfigSwapper.restore  *)
(*   core/launch_pipeline.py  LaunchPipeline.launch_with_session / restore *)
(*   launcher.py              GameLauncher._on_tile_launch and             *)
(*                            _WaitProcessWorker.run                       *)
(* The file system is a map from paths to contents, the backup storage a   *)
(* set of session directories with the backup files they hold.  Every      *)
(* launch is a sequence of steps: one per rule of apply, the spawn, the    *)
(* process exit, one per entry of restore and the final cleanup.           *)
(***************************************************************************)
EXTENDS Integers, Sequences, FiniteSets, TLC

\* ---------------------------------------------------------------- bounds
MaxRules == 2     \* longest rule list of a profile
MaxFaults == 1    \* file-system operations that may fail in one behaviour
MaxTime == 1      \* largest reading of the millisecond clock

\* ----------------------------------------------------------------- paths
\* A path is <<directory, file name>>.
P1 == <<"a", "x">>
P2 == <<"a", "y">>
P3 == <<"b", "x">>
Paths == {P1, P2, P3}
Dirs == {"a", "b"}
Names == {"x", "y"}
EmptyPath == <<>>
Cwd == <<"cwd">>

Absent == 0
\* content a file holds in the initial state (every file differs)
Own(p) == CASE p = P1 -> 1 [] p = P2 -> 2 [] p = P3 -> 3
\* content of a file that a failed copy left half written
Truncated == 4
Contents == {Own(p) : p \in Paths} \cup {Truncated}

\* os.path.abspath: the empty string becomes the working directory
Abspath(p) == IF p = EmptyPath THEN Cwd ELSE p
Dirname(p) == p[1]
Basename(p) == p[2]

\* str.strip() of the executable path (a sequence of characters)
RECURSIVE LStrip(_)
LStrip(s) == IF s = <<>> THEN s
             ELSE IF Head(s) = " " THEN LStrip(Tail(s)) ELSE s
RECURSIVE RStrip(_)
RStrip(s) == IF s = <<>> THEN s
             ELSE IF s[Len(s)] = " " THEN RStrip(SubSeq(s, 1, Len(s) - 1)) ELSE s
\* (variant: the path is taken as written)
StripNone(s) == s
\* str.strip()
Strip(s) == RStrip(LStrip(s))

\* -------------------------------------------------------------- data model
\* apply skips a disabled rule before it reads its paths: one disabled rule
\* stands for all of them
FileRule == {r \in [src : Paths, dst : Paths, enabled : BOOLEAN] :
                r.enabled \/ (r.src = P1 /\ r.dst = P2)}
SeqsUpTo(S, n) == UNION {[1..k -> S] : k \in 0..n}
RuleLists == SeqsUpTo(FileRule, MaxRules)
Exes == {<<>>, <<" ">>, <<"g">>}
Games == [exe_path : Exes, rules : RuleLists]
\* the games of a launcher that starts two launches: one rule each at most
ShortRule == {r \in FileRule : r.enabled /\ r.src # r.dst}
ShortGames == [exe_path : {<<"g">>}, rules : SeqsUpTo(ShortRule, 1)]
\* the games that get as far as a spawn: an exe_path and rules to act on
LiveGames == [exe_path : {<<"g">>}, rules : SeqsUpTo(ShortRule, MaxRules)]
\* the games whose rules may have an empty source path (the profile editor
\* drops such rules, a hand-written rule list need not)
EdgeRule == ShortRule \cup {[src |-> EmptyPath, dst |-> d, enabled |-> TRUE] : d \in Paths}
EdgeGames == [exe_path : {<<"g">>}, rules : SeqsUpTo(EdgeRule, MaxRules)]

None == <<>>
\* (variant: the backup is written to the backups root, not to the
\* directory of the session)
BackupPathShared(sid, i, name) == <<0, i, name>>

\* (variant: the backup is named by the file name alone)
BackupPathNoIndex(sid, i, name) == <<sid, 0, name>>

\* os.path.join(session_dir, f"{idx}__" + basename)
BackupPath(sid, i, name) == <<sid, i, name>>
BackupPaths == (0..MaxTime) \X (0..(MaxRules - 1)) \X Names
BackupEntry(dst, existed, backup_path) ==
    [dst |-> dst, existed |-> existed, backup_path |-> backup_path]
SwapSession(sid, backups) == [session_id |-> sid, backups |-> backups]
NoSession == SwapSession(-1, <<>>)

\* ------------------------------------------------- profile construction
\* longest string written in a config entry; most entries in "configs"
MaxLen == 2
MaxCfgs == 1
Chars == {" ", "a"}
\* a value of games.json under a key of a config entry: the key is missing,
\* or holds null, a number or a string
JsonValue(t, n, s) == [t |-> t, n |-> n, s |-> s]
Missing == JsonValue("missing", 0, <<>>)
Null == JsonValue("null", 0, <<>>)
JsonValues ==
    {Missing, Null}
    \cup {JsonValue("num", n, <<>>) : n \in {0, 1}}
    \cup {JsonValue("str", 0, w) : w \in SeqsUpTo(Chars, MaxLen)}
\* an element of "configs": a dict with (or without) "src" and "dst", or
\* something that is no dict.  "enabled" is carried over as bool() of its value
\* and plays no part in what is kept.
NotDict == [isdict |-> FALSE, src |-> Missing, dst |-> Missing]
ConfigEntries ==
    {NotDict} \cup {[isdict |-> TRUE, src |-> a, dst |-> b] : a, b \in JsonValues}
\* the "configs" value: a list of entries, or something that is no list
NotList == [islist |-> FALSE, items |-> <<>>]
NoConfigs == [islist |-> TRUE, items |-> <<>>]
Configs ==
    {NotList} \cup {[islist |-> TRUE, items |-> q] : q \in SeqsUpTo(ConfigEntries, MaxCfgs)}
NotBuilt == [via |-> "none", rules |-> <<>>]

\* dict.get(key, default)
Get(v, default) == IF v.t = "missing" THEN default ELSE v
\* str(value)
Str(v) ==
    CASE v.t = "str" -> v.s
      [] v.t = "null" -> <<"N", "o", "n", "e">>
      [] v.t = "num" -> IF v.n = 0 THEN <<"0">> ELSE <<"1">>
\* truth value of a Python object
Truthy(v) ==
    CASE v.t = "str" -> v.s # <<>>
      [] v.t = "num" -> v.n # 0
      [] OTHER -> FALSE

\* (variant: one non-empty path is enough)
KeptEither(src, dst) == src # <<>> \/ dst # <<>>
\* if src and dst:
Kept(src, dst) == src # <<>> /\ dst # <<>>

\* game_to_profiles, one element of configs: the rule appended, if any
ProfileRule(c) ==
    LET src == Strip(Str(Get(c.src, JsonValue("str", 0, <<>>))))
        dst == Strip(Str(Get(c.dst, JsonValue("str", 0, <<>>))))
    IN IF c.isdict /\ Kept(src, dst)
       THEN <<[src |-> src, dst |-> dst]>> ELSE <<>>
RECURSIVE ProfileRules(_)
ProfileRules(items) ==
    IF items = <<>> THEN <<>>
    ELSE ProfileRule(Head(items)) \o ProfileRules(Tail(items))

\* _on_tile_launch, "create minimal": the rule appended, if any
FallbackRule(c) ==
    IF c.isdict /\ Truthy(Get(c.src, Null)) /\ Truthy(Get(c.dst, Null))
    THEN <<[src |-> Str(c.src), dst |-> Str(c.dst)]>> ELSE <<>>
RECURSIVE FallbackRules(_)
FallbackRules(items) ==
    IF items = <<>> THEN <<>>
    ELSE FallbackRule(Head(items)) \o FallbackRules(Tail(items))

VARIABLES
    fs,           \* destination/source files: path -> content (Absent = no file)
    dirs,         \* directories that exist
    sdirs,        \* session ids whose backup-storage directory exists
    bfiles,       \* backup files: backup path -> content (Absent = no file)
    clock,        \* last reading of time.time() in milliseconds
    games,        \* the launches of this run: slot -> game (exe_path, rules)
    pc,           \* slot -> position of the launch
    idx,          \* slot -> loop index of apply, then of restore
    session,      \* slot -> SwapSession being built / handed to the caller
    live,         \* slot -> the spawned process is running
    err,          \* slot -> error that reached _on_tile_launch
    rst,          \* slot -> state of the restore call of the slot's session
    cleanupTried, \* slot -> restore reached its cleanup block
    spawnFailed,  \* slot -> Popen raised
    faults,       \* number of failed operations (file system, wait) so far
    pre,          \* slot -> fs at the call of launch_with_session
    orig,         \* slot -> content each entry's destination had before its swap
    restoreFailed,\* slot -> a copy-back, delete or rmtree of its restore failed
    configs,      \* the "configs" value of the profile being launched
    built         \* the profile built from it: route taken, rules passed on

launchVars == <<fs, dirs, sdirs, bfiles, clock, games, pc, idx, session, live, err,
                rst, cleanupTried, spawnFailed, faults, pre, orig, restoreFailed>>
vars == <<fs, dirs, sdirs, bfiles, clock, games, pc, idx, session, live, err,
          rst, cleanupTried, spawnFailed, faults, pre, orig, restoreFailed,
          configs, built>>

Slots == DOMAIN games
Exists(p) == p = Cwd \/ fs[p] # Absent

\* ------------------------------------------------------------------- Init
InitFiles ==
    /\ fs \in [Paths -> {Absent} \cup Contents]
    /\ \A p \in Paths : fs[p] \in {Absent, Own(p)}
    /\ dirs \in SUBSET Dirs
    /\ \A p \in Paths : fs[p] # Absent => Dirname(p) \in dirs
    /\ sdirs = {}
    /\ bfiles = [b \in BackupPaths |-> Absent]
    /\ clock = 0

InitSlots ==
    /\ pc = [l \in Slots |-> "idle"]
    /\ idx = [l \in Slots |-> 0]
    /\ session = [l \in Slots |-> NoSession]
    /\ live = [l \in Slots |-> FALSE]
    /\ err = [l \in Slots |-> "none"]
    /\ rst = [l \in Slots |-> "none"]
    /\ cleanupTried = [l \in Slots |-> FALSE]
    /\ spawnFailed = [l \in Slots |-> FALSE]
    /\ faults = 0
    /\ pre = [l \in Slots |-> fs]
    /\ orig = [l \in Slots |-> <<>>]
    /\ restoreFailed = [l \in Slots |-> FALSE]

\* no profile is being built
InitNoProfile ==
    /\ configs = NoConfigs
    /\ built = NotBuilt

Init ==
    /\ games \in [{1} -> Games]
    /\ InitFiles
    /\ InitSlots
    /\ InitNoProfile

InitTwo ==
    /\ games \in [{1, 2} -> ShortGames]
    /\ InitFiles
    /\ InitSlots
    /\ InitNoProfile

InitEdge ==
    /\ games \in [{1} -> EdgeGames]
    /\ InitFiles
    /\ InitSlots
    /\ InitNoProfile

InitLive ==
    /\ games \in [{1} -> LiveGames]
    /\ InitFiles
    /\ InitSlots
    /\ InitNoProfile

\* the launcher is about to build the profile of a tile: no launch yet, any
\* "configs" value in games.json
InitProfiles ==
    /\ games = <<>>
    /\ fs = [p \in Paths |-> Absent]
    /\ dirs = {}
    /\ sdirs = {}
    /\ bfiles = [b \in BackupPaths |-> Absent]
    /\ clock = 0
    /\ InitSlots
    /\ configs \in Configs
    /\ built = NotBuilt


\* ---------------------------------------------------- outcomes of file ops
\* A file-system operation succeeds or fails; a failure (as one of
\* proc.wait()) uses up one of the MaxFaults failures of the behaviour.  A copy onto a destination can also
\* fail after it has opened (and so emptied) the destination.
MayFail == faults < MaxFaults
OpOutcomes == {"ok", "fail"}
CopyOutcomes == {"ok", "fail", "partial"}
Cost(o) == IF o = "ok" THEN 0 ELSE 1

\* shutil.copy2 onto a destination path: content after the call
CopyResult(old, new, o) ==
    CASE o = "ok" -> new
      [] o = "fail" -> old
      [] o = "partial" -> Truncated

\* the UI thread runs _on_tile_launch to its end before the next launch
UIBusy == \E m \in Slots : pc[m] = "apply" \/ (pc[m] = "restore" /\ spawnFailed[m])

\* int(time.time() * 1000): the clock is measured from the first launch of
\* the run; a later launch reads it in the same millisecond or later
Readings == IF \A m \in Slots : pc[m] = "idle" THEN {clock} ELSE clock..MaxTime

\* -------------------------------------------- LaunchPipeline.launch_with_session
\* exe check, then the head of ConfigSwapper.apply: session id and mkdir
Launch(l) ==
    /\ UNCHANGED <<configs, built>>
    /\ pc[l] = "idle"
    /\ \A m \in Slots : m < l => pc[m] # "idle"   \* slots are in launch order
    /\ ~UIBusy
    /\ pre' = [pre EXCEPT ![l] = fs]
    /\ UNCHANGED <<orig, restoreFailed>>
    /\ IF Strip(games[l].exe_path) = <<>>
       THEN /\ pc' = [pc EXCEPT ![l] = "failed"]
            /\ err' = [err EXCEPT ![l] = "InvalidTarget"]
            /\ UNCHANGED <<fs, dirs, sdirs, bfiles, clock, games, idx, session,
                           live, rst, cleanupTried, spawnFailed, faults>>
       ELSE \E t \in Readings, mk \in OpOutcomes :
            /\ clock' = t
            /\ (t \in sdirs => mk = "ok")
            /\ (mk # "ok" => MayFail)
            /\ faults' = faults + Cost(mk)
            /\ IF mk = "ok"
               THEN /\ sdirs' = sdirs \cup {t}
                    /\ session' = [session EXCEPT ![l] = SwapSession(t, <<>>)]
                    /\ pc' = [pc EXCEPT ![l] = "apply"]
                    /\ idx' = [idx EXCEPT ![l] = 0]
                    /\ UNCHANGED err
               ELSE /\ pc' = [pc EXCEPT ![l] = "failed"]
                    /\ err' = [err EXCEPT ![l] = "OSError"]
                    /\ UNCHANGED <<sdirs, session, idx>>
            /\ UNCHANGED <<fs, dirs, bfiles, games, live, rst, cleanupTried,
                           spawnFailed>>

\* ------------------------------------------------------ ConfigSwapper.apply
\* (variant: the enabled flag is not looked at)
SkippedIgnoreEnabled(r) ==
    \/ Abspath(r.src) = EmptyPath
    \/ Abspath(r.dst) = EmptyPath
    \/ ~Exists(Abspath(r.src))

\* a rule apply does not act on
Skipped(r) ==
    \/ ~r.enabled
    \/ Abspath(r.src) = EmptyPath
    \/ Abspath(r.dst) = EmptyPath
    \/ ~Exists(Abspath(r.src))

\* (variant: backup_path is not reset when the backup copy raises)
RecordedPathKeep(existed, copied, bpath) ==
    IF existed THEN bpath ELSE None

\* (variant: backup_path is set before the test of existed)
RecordedPathAlways(existed, copied, bpath) ==
    IF existed THEN (IF copied THEN bpath ELSE None) ELSE bpath

\* backup_path of the entry: None, the backup file's path when the
\* destination existed, None again when the backup copy raised
RecordedPath(existed, copied, bpath) ==
    IF existed THEN (IF copied THEN bpath ELSE None) ELSE None

\* (variant: a failed overwrite is left as it is)
RollbackNever(owFailed, existed, backup_path, present) == FALSE

\* the overwrite raised: if existed and backup_path and
\* os.path.exists(backup_path), the backup is copied back
Rollback(owFailed, existed, backup_path, present) ==
    owFailed /\ existed /\ backup_path # None /\ present

\* (variant: no entry for a rule whose overwrite failed)
RecordedUnlessFailed(backups, e, owFailed) ==
    IF owFailed THEN backups ELSE Append(backups, e)

\* backups.append(BackupEntry(...)), whatever the copies did
Recorded(backups, e, owFailed) == Append(backups, e)

\* (variant: every rule copies what its source held before apply)
SourceContentPre(l, src) == pre[l][src]

\* shutil.copy2(src, dst) reads the source as it is when the rule is reached
SourceContent(l, src) == fs[src]

\* one iteration of the loop over the rules
ApplyRule(l) ==
    /\ UNCHANGED <<configs, built>>
    /\ pc[l] = "apply"
    /\ idx[l] < Len(games[l].rules)
    /\ LET r == games[l].rules[idx[l] + 1]
           src == Abspath(r.src)
           dst == Abspath(r.dst)
           sid == session[l].session_id
       IN IF Skipped(r)
          THEN /\ idx' = [idx EXCEPT ![l] = @ + 1]
               /\ UNCHANGED <<fs, dirs, sdirs, bfiles, clock, games, pc, session,
                              live, err, rst, cleanupTried, spawnFailed, faults, pre,
                              orig, restoreFailed>>
          ELSE \E mk \in OpOutcomes, bk \in OpOutcomes, ow \in CopyOutcomes,
                  rb \in CopyOutcomes :
               LET existed == fs[dst] # Absent
                   bpath == BackupPath(sid, idx[l], Basename(dst))
                   tryBackup == existed /\ sid \in sdirs
                   copied == tryBackup /\ bk = "ok"
                   backup_path == RecordedPath(existed, copied, bpath)
                   bfiles1 == IF copied
                              THEN [bfiles EXCEPT ![bpath] = fs[dst]] ELSE bfiles
                   \* copy2 raises before it opens dst: SameFileError, or the
                   \* source is a directory (IsADirectoryError)
                   sameFile == src = dst \/ src = Cwd
                   owFailed == sameFile \/ ow # "ok"
                   fsOw == IF sameFile THEN fs
                           ELSE [fs EXCEPT ![dst] = CopyResult(fs[dst], SourceContent(l, src), ow)]
                   tryRollback == Rollback(owFailed, existed, backup_path,
                                           bfiles1[bpath] # Absent)
                   fsEnd == IF tryRollback
                            THEN [fsOw EXCEPT ![dst] = CopyResult(fsOw[dst], bfiles1[bpath], rb)]
                            ELSE fsOw
                   cost == Cost(mk) + Cost(bk) + Cost(ow) + Cost(rb)
               IN /\ (Dirname(dst) \in dirs => mk = "ok")
                  /\ (mk # "ok" => bk = "ok" /\ ow = "ok" /\ rb = "ok")
                  /\ (~tryBackup => bk = "ok")
                  /\ (sameFile => ow = "ok")
                  /\ (~tryRollback => rb = "ok")
                  /\ faults + cost <= MaxFaults
                  /\ faults' = faults + cost
                  /\ IF mk # "ok"
                     THEN \* os.makedirs raised: apply and launch_with_session raise
                          /\ pc' = [pc EXCEPT ![l] = "failed"]
                          /\ err' = [err EXCEPT ![l] = "OSError"]
                          /\ UNCHANGED <<fs, dirs, bfiles, idx, session, orig>>
                     ELSE /\ dirs' = dirs \cup {Dirname(dst)}
                          /\ bfiles' = bfiles1
                          /\ fs' = fsEnd
                          /\ session' = [session EXCEPT ![l].backups =
                                           Recorded(@, BackupEntry(dst, existed, backup_path),
                                                    owFailed)]
                          /\ orig' = [orig EXCEPT ![l] = Append(@, fs[dst])]
                          /\ idx' = [idx EXCEPT ![l] = @ + 1]
                          /\ UNCHANGED <<pc, err>>
                  /\ UNCHANGED <<sdirs, clock, games, live, rst, cleanupTried,
                                 spawnFailed, pre, restoreFailed>>

\* (variant: Popen is reached before the loop over the rules has ended)
ApplyStarted(l) == pc[l] = "apply"

\* apply has walked every rule and returns the Session
ApplyDone(l) == pc[l] = "apply" /\ idx[l] = Len(games[l].rules)

\* (variant: the except block re-raises without calling restore)
OnSpawnFailureRaise(l) == [pc |-> "failed", rst |-> rst[l]]

\* except Exception: self.swapper.restore(session) is entered
OnSpawnFailure(l) == [pc |-> "restore", rst |-> "running"]

\* subprocess.Popen after apply returned; on failure the pipeline restores
Spawn(l) ==
    /\ UNCHANGED <<configs, built>>
    /\ ApplyDone(l)
    /\ \E ok \in BOOLEAN :
         IF ok
         THEN /\ pc' = [pc EXCEPT ![l] = "running"]
              /\ live' = [live EXCEPT ![l] = TRUE]
              /\ UNCHANGED <<idx, rst, spawnFailed>>
         ELSE /\ pc' = [pc EXCEPT ![l] = OnSpawnFailure(l).pc]
              /\ spawnFailed' = [spawnFailed EXCEPT ![l] = TRUE]
              /\ rst' = [rst EXCEPT ![l] = OnSpawnFailure(l).rst]
              /\ idx' = [idx EXCEPT ![l] = 0]
              /\ UNCHANGED live
    /\ UNCHANGED <<fs, dirs, sdirs, bfiles, clock, games, session, err,
                   cleanupTried, faults, pre, orig, restoreFailed>>

\* the game process ends (whether or not the worker still waits for it)
ProcExit(l) ==
    /\ UNCHANGED <<configs, built>>
    /\ live[l]
    /\ live' = [live EXCEPT ![l] = FALSE]
    /\ UNCHANGED <<fs, dirs, sdirs, bfiles, clock, games, pc, idx, session, err,
                   rst, cleanupTried, spawnFailed, faults, pre, orig,
                   restoreFailed>>

\* _WaitProcessWorker.run: proc.wait() returned, restore is called
WorkerRestore(l) ==
    /\ UNCHANGED <<configs, built>>
    /\ pc[l] = "running"
    /\ ~live[l]
    /\ pc' = [pc EXCEPT ![l] = "restore"]
    /\ rst' = [rst EXCEPT ![l] = "running"]
    /\ idx' = [idx EXCEPT ![l] = 0]
    /\ UNCHANGED <<fs, dirs, sdirs, bfiles, clock, games, session, live, err,
                   cleanupTried, spawnFailed, faults, pre, orig, restoreFailed>>

\* (variant: no finally block, a failed wait ends run without restore)
WaitRaisesNoFinally(l) ==
    /\ pc[l] = "running"
    /\ live[l]
    /\ MayFail
    /\ faults' = faults + 1
    /\ pc' = [pc EXCEPT ![l] = "done"]
    /\ UNCHANGED <<fs, dirs, sdirs, bfiles, clock, games, session, live, err, rst,
                   idx, cleanupTried, spawnFailed, pre, orig, restoreFailed,
                   configs, built>>

\* _WaitProcessWorker.run: proc.wait() itself raises while the process is
\* running; the finally block calls restore all the same
WaitRaises(l) ==
    /\ UNCHANGED <<configs, built>>
    /\ pc[l] = "running"
    /\ live[l]
    /\ MayFail
    /\ faults' = faults + 1
    /\ pc' = [pc EXCEPT ![l] = "restore"]
    /\ rst' = [rst EXCEPT ![l] = "running"]
    /\ idx' = [idx EXCEPT ![l] = 0]
    /\ UNCHANGED <<fs, dirs, sdirs, bfiles, clock, games, session, live, err,
                   cleanupTried, spawnFailed, pre, orig, restoreFailed>>

\* ---------------------------------------------------- ConfigSwapper.restore
\* (variant: the pipeline swallows the spawn error and hands the Session
\* to the caller after its own restore)
ReturnToCaller(l, raised) ==
    IF spawnFailed[l]
    THEN [pc |-> "running", err |-> "none"]
    ELSE [pc |-> "done", err |-> "none"]

\* where control goes when restore ends: the pipeline re-raises the spawn
\* error (a raise inside its except block would replace it), the worker
\* swallows everything and emits finished
ReturnTo(l, raised) ==
    IF spawnFailed[l]
    THEN [pc |-> "failed", err |-> IF raised THEN "RestoreError" ELSE "SpawnError"]
    ELSE [pc |-> "done", err |-> "none"]

\* (variant: no try/except around the entry, the failure leaves restore)
AfterEntryAbort(l, failed) ==
    IF failed
    THEN [pc |-> ReturnTo(l, TRUE).pc, idx |-> idx[l], rst |-> "raised",
          err |-> ReturnTo(l, TRUE).err]
    ELSE [pc |-> "restore", idx |-> idx[l] + 1, rst |-> "running", err |-> err[l]]

\* the try/except around one entry: a failed copy-back or delete is
\* swallowed and the loop goes on with the next entry
AfterEntry(l, failed) ==
    [pc |-> "restore", idx |-> idx[l] + 1, rst |-> "running", err |-> err[l]]

\* one iteration of the loop over session.backups
\* (variant: an entry without backup is taken for a file apply created)
RemovesDegraded(b) == (~b.existed \/ b.backup_path = None) /\ Exists(b.dst)

\* else-branch of `if b.existed`: os.remove(b.dst) when it exists
Removes(b) == ~b.existed /\ Exists(b.dst)

RestoreEntry(l) ==
    /\ UNCHANGED <<configs, built>>
    /\ pc[l] = "restore"
    /\ idx[l] < Len(session[l].backups)
    /\ LET b == session[l].backups[idx[l] + 1]
           hasBackup == b.backup_path # None /\ bfiles[b.backup_path] # Absent
       IN \E cp \in CopyOutcomes, rm \in OpOutcomes :
          LET tryCopy == b.existed /\ hasBackup
              tryRemove == Removes(b)
              cost == Cost(cp) + Cost(rm)
              nxt == AfterEntry(l, cost > 0)
          IN /\ (~tryCopy => cp = "ok")
             /\ (~tryRemove => rm = "ok")
             /\ faults + cost <= MaxFaults
             /\ faults' = faults + cost
             /\ fs' = IF tryCopy
                      THEN [fs EXCEPT ![b.dst] = CopyResult(@, bfiles[b.backup_path], cp)]
                      ELSE IF tryRemove /\ rm = "ok"
                           THEN [fs EXCEPT ![b.dst] = Absent]
                           ELSE fs
             /\ pc' = [pc EXCEPT ![l] = nxt.pc]
             /\ idx' = [idx EXCEPT ![l] = nxt.idx]
             /\ rst' = [rst EXCEPT ![l] = nxt.rst]
             /\ err' = [err EXCEPT ![l] = nxt.err]
             /\ restoreFailed' = [restoreFailed EXCEPT ![l] = @ \/ cost > 0]
    /\ UNCHANGED <<dirs, sdirs, bfiles, clock, games, session, live,
                   cleanupTried, spawnFailed, pre, orig>>

\* (variant: the backup files are deleted one by one, the directory stays)
AfterRmtreeKeepDir(sid, rt) ==
    IF sid \in sdirs /\ rt = "ok"
    THEN [sdirs |-> sdirs,
          bfiles |-> [b \in BackupPaths |-> IF b[1] = sid THEN Absent ELSE bfiles[b]]]
    ELSE [sdirs |-> sdirs, bfiles |-> bfiles]

\* (variant: the cleanup also removes the directories of older sessions)
AfterRmtreeOlder(sid, rt) ==
    IF sid \in sdirs /\ rt = "ok"
    THEN [sdirs |-> {t \in sdirs : t > sid},
          bfiles |-> [b \in BackupPaths |-> IF b[1] <= sid THEN Absent ELSE bfiles[b]]]
    ELSE [sdirs |-> sdirs, bfiles |-> bfiles]

\* (variant: rmtree of the backups root instead of the session directory)
AfterRmtreeRoot(sid, rt) ==
    IF sid \in sdirs /\ rt = "ok"
    THEN [sdirs |-> {}, bfiles |-> [b \in BackupPaths |-> Absent]]
    ELSE [sdirs |-> sdirs, bfiles |-> bfiles]

\* if os.path.exists(session_dir): shutil.rmtree(session_dir,
\* ignore_errors=True): the directory and its files are gone, or (rt failed)
\* everything is left
AfterRmtree(sid, rt) ==
    IF sid \in sdirs /\ rt = "ok"
    THEN [sdirs |-> sdirs \ {sid},
          bfiles |-> [b \in BackupPaths |-> IF b[1] = sid THEN Absent ELSE bfiles[b]]]
    ELSE [sdirs |-> sdirs, bfiles |-> bfiles]

\* the cleanup block of restore, then restore returns to the pipeline
\* (spawn failure) or to the worker (process exit)
RestoreCleanup(l) ==
    /\ UNCHANGED <<configs, built>>
    /\ pc[l] = "restore"
    /\ idx[l] = Len(session[l].backups)
    /\ LET sid == session[l].session_id
           ret == ReturnTo(l, FALSE)
       IN \E rt \in OpOutcomes :
          /\ (sid \notin sdirs => rt = "ok")
          /\ faults + Cost(rt) <= MaxFaults
          /\ faults' = faults + Cost(rt)
          /\ sdirs' = AfterRmtree(sid, rt).sdirs
          /\ bfiles' = AfterRmtree(sid, rt).bfiles
          /\ restoreFailed' = [restoreFailed EXCEPT ![l] = @ \/ rt # "ok"]
          /\ cleanupTried' = [cleanupTried EXCEPT ![l] = TRUE]
          /\ rst' = [rst EXCEPT ![l] = "returned"]
          /\ pc' = [pc EXCEPT ![l] = ret.pc]
          /\ err' = [err EXCEPT ![l] = ret.err]
    /\ UNCHANGED <<fs, dirs, clock, games, idx, session, live, spawnFailed, pre,
                   orig>>

\* restore is called once more on a Session whose restore has returned
\* (a caller of the core doing so; the launcher itself never does)
RestoreAgain(l) ==
    /\ UNCHANGED <<configs, built>>
    /\ pc[l] \in {"done", "failed"}
    /\ rst[l] = "returned"
    /\ pc' = [pc EXCEPT ![l] = "restore"]
    /\ rst' = [rst EXCEPT ![l] = "running"]
    /\ idx' = [idx EXCEPT ![l] = 0]
    /\ UNCHANGED <<fs, dirs, sdirs, bfiles, clock, games, session, live, err,
                   cleanupTried, spawnFailed, faults, pre, orig, restoreFailed>>

\* game_to_profiles yields the profile of the chosen key: its rules are the
\* ones passed to launch_with_session
GameToProfiles ==
    /\ built = NotBuilt
    /\ built' = [via |-> "game_to_profiles",
                 rules |-> IF configs.islist THEN ProfileRules(configs.items) ELSE <<>>]
    /\ UNCHANGED <<launchVars, configs>>

\* no profile of game_to_profiles has the chosen key (dp is None): the
\* launcher builds a minimal profile itself
FallbackProfile ==
    /\ built = NotBuilt
    /\ built' = [via |-> "fallback",
                 rules |-> IF configs.islist THEN FallbackRules(configs.items) ELSE <<>>]
    /\ UNCHANGED <<launchVars, configs>>

\* ------------------------------------------------------------ specification
Next ==
    \E l \in Slots :
        \/ Launch(l)
        \/ ApplyRule(l)
        \/ Spawn(l)
        \/ ProcExit(l)
        \/ WorkerRestore(l)
        \/ WaitRaises(l)
        \/ RestoreEntry(l)
        \/ RestoreCleanup(l)

\* one launch, every game
Spec == Init /\ [][Next]_vars
\* two launches of short games
SpecTwo == InitTwo /\ [][Next]_vars
\* one launch whose rules may have an empty source path
SpecEdge == InitEdge /\ [][Next]_vars
\* one launch, with the progress the code's control flow gives: a call that
\* has been entered runs on (launch_with_session goes from apply to Popen,
\* restore walks its entries and cleans up) and the worker thread, once its
\* wait has returned, calls restore.  Nothing makes the process exit.
Progress ==
    /\ WF_vars(ApplyRule(1))
    /\ WF_vars(Spawn(1))
    /\ WF_vars(WorkerRestore(1))
    /\ WF_vars(RestoreEntry(1))
    /\ WF_vars(RestoreCleanup(1))
SpecLive == InitLive /\ [][Next]_vars /\ Progress
\* one launch, after which restore may be called again on its Session
NextAgain ==
    \/ Next
    \/ \E l \in Slots : RestoreAgain(l)
SpecAgain == InitLive /\ [][NextAgain]_vars
\* the launcher builds the profile it passes to launch_with_session
NextProfiles ==
    \/ GameToProfiles
    \/ FallbackProfile
SpecProfiles == InitProfiles /\ [][NextProfiles]_vars

TypeOK ==
    /\ fs \in [Paths -> {Absent} \cup Contents]
    /\ dirs \subseteq Dirs
    /\ sdirs \subseteq 0..MaxTime
    /\ bfiles \in [BackupPaths -> {Absent} \cup Contents]
    /\ clock \in 0..MaxTime
    /\ pc \in [Slots -> {"idle", "apply", "running", "restore", "done", "failed"}]
    /\ \A l \in Slots : idx[l] \in 0..MaxRules
    /\ live \in [Slots -> BOOLEAN]
    /\ err \in [Slots -> {"none", "InvalidTarget", "OSError", "SpawnError", "RestoreError"}]
    /\ rst \in [Slots -> {"none", "running", "returned", "raised"}]
    /\ faults \in 0..MaxFaults

\* ------------------------------------------------------------------ claims
Entries(l) == {session[l].backups[i] : i \in 1..Len(session[l].backups)}
Rules(l) == {games[l].rules[i] : i \in 1..Len(games[l].rules)}

\* C1: round trip.  When every destination existed before apply and no
\* copy failed, restore(apply(rules)) leaves every destination with the
\* content it had before apply (two rules may name the same destination).
C1_RoundTrip ==
    \A l \in Slots :
        (/\ rst[l] = "returned"
         /\ faults = 0
         /\ \A e \in Entries(l) : pre[l][e.dst] # Absent)
        => \A e \in Entries(l) : fs[e.dst] = pre[l][e.dst]

\* C2: creation undo.  A rule that is acted on, whose destination did not
\* exist before apply and whose source no rule of the list rewrites: after
\* apply the destination exists (with the source's content when no other
\* rule writes the destination from another source), and after restore the
\* destination does not exist (no file operation failing).
C2_CreationUndo ==
    \A l \in Slots : \A r \in Rules(l) :
        (/\ faults = 0
         /\ r.enabled
         /\ pre[l][r.src] # Absent
         /\ pre[l][r.dst] = Absent
         /\ \A q \in Rules(l) : q.dst # r.src)
        => /\ ApplyDone(l) =>
                /\ fs[r.dst] # Absent
                /\ (\A q \in Rules(l) : q.dst = r.dst => q.src = r.src)
                       => fs[r.dst] = pre[l][r.src]
           /\ rst[l] = "returned" => fs[r.dst] = Absent

\* C3: no orphaned swap.  A file that differs from its state before the
\* launch implies that the launch is inside apply/spawn, or its process
\* is being waited for, or a restore of its Session is running or has
\* completed.
C3_NoOrphanedSwap ==
    \A l \in Slots :
        (\E p \in Paths : fs[p] # pre[l][p])
        => \/ pc[l] \in {"apply", "running", "restore"}
           \/ rst[l] = "returned"

\* C4: spawn-failure cleanup.  When the spawn error reaches the caller
\* (no file operation having failed), every touched destination is in its
\* pre-apply state and the session's backup directory is gone.
C4_SpawnFailureCleanup ==
    \A l \in Slots :
        (pc[l] = "failed" /\ err[l] = "SpawnError" /\ faults = 0)
        => /\ \A e \in Entries(l) : fs[e.dst] = pre[l][e.dst]
           /\ session[l].session_id \notin sdirs

\* C5: a launch that ends with an error started no process and left every
\* file as it was before the call.
C5_FailedLaunchChangesNothing ==
    \A l \in Slots :
        pc[l] = "failed" => ~live[l] /\ fs = pre[l]

\* C6: the only errors that reach the caller of launch_with_session are
\* the empty executable path and the spawn failure.
C6_OnlyTwoErrors ==
    \A l \in Slots :
        pc[l] = "failed" => err[l] \in {"InvalidTarget", "SpawnError"}

\* C7: apply never raises: once called it runs through all the rules and
\* returns, so that the launch reaches the spawn.
C7_ApplyNeverRaises ==
    \A l \in Slots :
        (pc[l] \notin {"idle", "apply"} /\ err[l] # "InvalidTarget")
        => \/ pc[l] \in {"running", "restore", "done"}
           \/ spawnFailed[l]

\* C8: restore never raises and never aborts early: it returns normally,
\* having gone through every entry and attempted the cleanup, whichever
\* copy-back, delete or directory removal failed.
C8_RestoreNeverAborts ==
    \A l \in Slots :
        /\ rst[l] # "raised"
        /\ err[l] # "RestoreError"
        /\ rst[l] = "returned" =>
              /\ idx[l] = Len(session[l].backups)
              /\ cleanupTried[l]

\* C8 witness: restore returned although the delete of its first entry
\* failed (the created file is still there); the second entry was undone
\* and the session directory removed.
C8_Witness ==
    \E l \in Slots :
        /\ rst[l] = "returned"
        /\ Len(session[l].backups) = 2
        /\ LET e1 == session[l].backups[1]
               e2 == session[l].backups[2]
           IN /\ e1.dst # e2.dst
              /\ ~e1.existed /\ fs[e1.dst] # Absent
              /\ ~e2.existed /\ fs[e2.dst] = Absent
        /\ session[l].session_id \notin sdirs

\* C9: two apply calls return Sessions with different session ids.
C9_DistinctSessionIds ==
    \A l, m \in Slots :
        (l # m /\ session[l] # NoSession /\ session[m] # NoSession)
        => session[l].session_id # session[m].session_id

\* C10: session isolation.  Whatever the other Session's restore did, a
\* Session that has not been restored yet still has every backup file it
\* recorded (no file operation failing).
C10_SessionIsolation ==
    \A l \in Slots :
        (faults = 0 /\ pc[l] = "running")
        => \A e \in Entries(l) :
              e.backup_path # None => bfiles[e.backup_path] # Absent

\* C11: two launches whose rule sets have disjoint (non-empty) sets of
\* destination paths: once both restores have completed (no file operation
\* having failed), every destination of both is as it was before one of
\* the two launches (the first one).
Dsts(l) == {r.dst : r \in Rules(l)}
Finished(l) == pc[l] \in {"done", "failed"} /\ rst[l] = "returned"
C11_DisjointLaunchesSafe ==
    \A l, m \in Slots :
        (/\ l # m
         /\ Dsts(l) # {} /\ Dsts(m) # {}
         /\ Dsts(l) \cap Dsts(m) = {}
         /\ Finished(l) /\ Finished(m)
         /\ faults = 0)
        => \E k \in {l, m} : \A d \in Dsts(l) \cup Dsts(m) : fs[d] = pre[k][d]

\* C12: skip property.  The step of apply over a rule that is disabled or
\* whose source does not exist changes no file, no directory, no backup
\* file and adds no BackupEntry; and a launch all of whose rules are such
\* leaves every file as it was, in apply and in restore.
SkipCase(r) == ~r.enabled \/ fs[r.src] = Absent
C12_SkipStep ==
    \A l \in Slots :
        (/\ pc[l] = "apply"
         /\ idx[l] < Len(games[l].rules)
         /\ idx'[l] = idx[l] + 1
         /\ SkipCase(games[l].rules[idx[l] + 1]))
        => /\ fs' = fs /\ dirs' = dirs
           /\ bfiles' = bfiles /\ sdirs' = sdirs
           /\ session' = session
AllSkipped(l) == \A r \in Rules(l) : ~r.enabled \/ pre[l][r.src] = Absent
C12_SkipProperty ==
    /\ [][C12_SkipStep]_vars
    /\ [](\A l \in Slots : (pc[l] # "idle" /\ AllSkipped(l))
                              => fs = pre[l] /\ session[l].backups = <<>>)

\* C12 witness: restore has returned for a launch whose first rule had no
\* source and whose second rule was acted on.
C12_Witness ==
    \E l \in Slots :
        /\ rst[l] = "returned"
        /\ Len(games[l].rules) = 2
        /\ games[l].rules[1].enabled
        /\ pre[l][games[l].rules[1].src] = Absent
        /\ Len(session[l].backups) = 1
        /\ session[l].backups[1].dst = games[l].rules[2].dst

\* C13: the step of apply over a rule whose source path is the empty string
\* produces no BackupEntry and creates, copies or overwrites no file and no
\* directory.
C13_EmptyPathStep ==
    \A l \in Slots :
        (/\ pc[l] = "apply"
         /\ idx[l] < Len(games[l].rules)
         /\ games[l].rules[idx[l] + 1].src = EmptyPath
         /\ idx'[l] = idx[l] + 1)
        => /\ session' = session
           /\ fs' = fs /\ dirs' = dirs /\ bfiles' = bfiles
C13_EmptyPathSkipped == [][C13_EmptyPathStep]_vars

\* C14: a launch whose exe_path is empty or only whitespace fails before
\* anything is touched: no session is made (apply is not called), no
\* directory, file or backup file changes and no process is spawned.
BlankExe(l) == \A i \in 1..Len(games[l].exe_path) : games[l].exe_path[i] = " "
C14_BlankExeFailsFast ==
    \A l \in Slots :
        BlankExe(l) =>
            /\ pc[l] \in {"idle", "failed"}
            /\ session[l] = NoSession
            /\ ~live[l]
            /\ rst[l] = "none"
            /\ (pc[l] = "failed" =>
                   /\ err[l] = "InvalidTarget"
                   /\ fs = pre[l]
                   /\ sdirs = {}
                   /\ \A b \in BackupPaths : bfiles[b] = Absent)

\* C14 witness: the launch of a whitespace-only exe_path has failed
C14_Witness ==
    \E l \in Slots : games[l].exe_path = <<" ">> /\ pc[l] = "failed"

\* C15: in the Session apply returns, every destination path apply touched
\* (a path whose content it changed, or that an entry names) is the
\* destination of exactly one BackupEntry.
EntriesFor(l, p) == {i \in 1..Len(session[l].backups) : session[l].backups[i].dst = p}
C15_OneEntryPerDestination ==
    \A l \in Slots :
        ApplyDone(l) =>
            \A p \in Paths :
                (fs[p] # pre[l][p] \/ EntriesFor(l, p) # {})
                => Cardinality(EntriesFor(l, p)) = 1

\* C16: whatever backup copies and overwrite copies failed during apply,
\* once restore has returned without a failure of its own every destination
\* named by an entry has the content, or the absence, it had before apply.
C16_UndoAllEntries ==
    \A l \in Slots :
        (rst[l] = "returned" /\ ~restoreFailed[l])
        => \A e \in Entries(l) : fs[e.dst] = pre[l][e.dst]

\* C17: from the return of apply until the restore of the Session starts,
\* the backup file of every entry with existed = TRUE and backup_path set
\* exists and holds the content the destination had before its swap.
C17_BackupIsExactCopy ==
    \A l \in Slots :
        (ApplyDone(l) \/ pc[l] = "running")
        => \A i \in 1..Len(session[l].backups) :
               LET e == session[l].backups[i]
               IN (e.existed /\ e.backup_path # None)
                  => /\ bfiles[e.backup_path] # Absent
                     /\ bfiles[e.backup_path] = orig[l][i]

\* C18: in every BackupEntry of every Session, existed = FALSE implies
\* backup_path is None: a backup_path is only set on entries with
\* existed = TRUE.
C18_NoBackupPathUnlessExisted ==
    \A l \in Slots : \A e \in Entries(l) : ~e.existed => e.backup_path = None

\* C18 witness: apply has returned a Session with an entry for a
\* destination that did not exist, the overwrite having been made.
C18_Witness ==
    \E l \in Slots :
        /\ ApplyDone(l)
        /\ \E e \in Entries(l) : ~e.existed /\ fs[e.dst] # Absent

\* C19: when the cleanup of restore runs and its deletion does not fail,
\* the session's backup-storage directory and every backup file in it no
\* longer exist afterwards, whether or not the Session has entries.
CleanupStep(l) == pc[l] = "restore" /\ rst[l] = "running" /\ rst'[l] = "returned"
C19_CleanupStep ==
    \A l \in Slots :
        (CleanupStep(l) /\ faults' = faults)
        => /\ session[l].session_id \notin sdirs'
           /\ \A b \in BackupPaths :
                  b[1] = session[l].session_id => bfiles'[b] = Absent
C19_BackupDirRemoved == [][C19_CleanupStep]_vars

\* C19 witness: restore has returned without a failure for a Session that
\* had a backup file, and its directory is gone.
C19_Witness ==
    \E l \in Slots :
        /\ rst[l] = "returned" /\ ~restoreFailed[l]
        /\ \E e \in Entries(l) : e.backup_path # None
        /\ session[l].session_id \notin sdirs

\* C20 (as stated): restore of a Session whose backups list is empty changes
\* nothing on the filesystem.
EmptyRestoreStep(l) == CleanupStep(l) /\ session[l].backups = <<>>
C20_EmptyRestoreStep ==
    \A l \in Slots :
        EmptyRestoreStep(l)
        => fs' = fs /\ dirs' = dirs /\ sdirs' = sdirs /\ bfiles' = bfiles
C20_EmptyRestoreNoOp == [][C20_EmptyRestoreStep]_vars

\* C20 (amended): restore of a Session whose backups list is empty changes
\* no file and no directory other than the Session's own backup-storage
\* directory, which it removes with whatever is in it.
C20_EmptyRestoreOwnDirStep ==
    \A l \in Slots :
        EmptyRestoreStep(l)
        => /\ fs' = fs /\ dirs' = dirs
           /\ sdirs \ {session[l].session_id} \subseteq sdirs'
           /\ sdirs' \subseteq sdirs
           /\ \A b \in BackupPaths :
                  b[1] # session[l].session_id => bfiles'[b] = bfiles[b]
C20_EmptyRestoreOwnDirOnly == [][C20_EmptyRestoreOwnDirStep]_vars

\* C20 witness: the restore of a Session without entries has returned and
\* removed its directory while another session's directory and backup file
\* are still there.
C20_Witness ==
    \E l \in Slots :
        /\ rst[l] = "returned"
        /\ session[l].backups = <<>>
        /\ session[l].session_id \notin sdirs
        /\ \E m \in Slots \ {l} :
               /\ session[m].session_id \in sdirs
               /\ \E e \in Entries(m) :
                      e.backup_path # None /\ bfiles[e.backup_path] # Absent

\* C21: the Session of a launch is restored exactly once.  A restore starts
\* only for a Session that was never restored: from the pipeline when the
\* spawn failed (the Session never reaches the caller) or from the worker
\* that waited for the process; a launch ends only with its Session
\* restored; and once apply has returned, the Session is eventually
\* restored unless the process is still running.
RestoreStarts(l) == rst[l] # "running" /\ rst'[l] = "running"
C21_RestoreStep ==
    \A l \in Slots :
        /\ RestoreStarts(l) =>
               /\ rst[l] = "none"
               /\ IF spawnFailed'[l] THEN pc[l] = "apply" ELSE pc[l] = "running"
        /\ (rst[l] = "returned" => rst'[l] = "returned")
C21_Owners ==
    \A l \in Slots :
        /\ spawnFailed[l] => pc[l] \in {"restore", "failed"}
        /\ pc[l] = "done" => rst[l] = "returned"
        /\ (pc[l] = "failed" /\ spawnFailed[l]) => rst[l] = "returned"
PathStep(l) ==
    \/ pc'[l] = pc[l]
    \/ pc[l] = "idle" /\ pc'[l] = "apply"
    \/ pc[l] = "idle" /\ pc'[l] = "failed" /\ err'[l] = "InvalidTarget"
    \/ pc[l] = "apply" /\ pc'[l] = "running"
    \/ pc[l] = "apply" /\ pc'[l] = "restore" /\ spawnFailed'[l]
    \/ pc[l] = "running" /\ pc'[l] = "restore"
    \/ pc[l] = "restore" /\ pc'[l] = "done" /\ ~spawnFailed[l]
    \/ pc[l] = "restore" /\ pc'[l] = "failed" /\ spawnFailed[l]
C22_Step ==
    \A l \in Slots :
        /\ PathStep(l)
        /\ RestoreStarts(l) => ~live[l]
C22_TwoPaths == [][C22_Step]_vars

\* C23: the process is never spawned before apply has processed every rule:
\* at the spawn attempt the loop is over, the Session exists and has an
\* entry for every enabled rule whose source existed.
SpawnAttempt(l) == pc[l] = "apply" /\ pc'[l] \in {"running", "restore"}
C23_Step ==
    \A l \in Slots :
        SpawnAttempt(l) =>
            /\ idx[l] = Len(games[l].rules)
            /\ session[l] # NoSession
            /\ \A r \in Rules(l) :
                   (r.enabled /\ pre[l][r.src] # Absent)
                   => \E e \in Entries(l) : e.dst = r.dst
C23_ApplyBeforeSpawn == [][C23_Step]_vars

\* C23 witness: the process runs and the Session has an entry for each of
\* two rules.
C23_Witness ==
    \E l \in Slots :
        /\ pc[l] = "running" /\ live[l]
        /\ Len(games[l].rules) = 2
        /\ Len(session[l].backups) = 2

\* C24: when the spawn failed and the error has reached the caller, restore
\* has run to its end (every entry walked, the cleanup made) and the error
\* is the spawn error, not one raised by restore.
C24_RestoreThenSpawnError ==
    \A l \in Slots :
        (spawnFailed[l] /\ pc[l] # "restore") =>
            /\ pc[l] = "failed"
            /\ rst[l] = "returned"
            /\ idx[l] = Len(session[l].backups)
            /\ cleanupTried[l]
            /\ err[l] = "SpawnError"

\* C24 witness: the spawn error has reached the caller after a restore in
\* which a file operation failed.
C24_Witness ==
    \E l \in Slots :
        /\ spawnFailed[l] /\ pc[l] = "failed"
        /\ restoreFailed[l]
        /\ Len(session[l].backups) = 2

RuleStep(l) ==
    /\ pc[l] = "apply"
    /\ idx[l] < Len(games[l].rules)
    /\ Len(session'[l].backups) = Len(session[l].backups) + 1
NewEntry(l) == session'[l].backups[Len(session'[l].backups)]
OverwriteFailedOnly(l) ==
    LET r == games[l].rules[idx[l] + 1]
    IN /\ NewEntry(l).existed /\ NewEntry(l).backup_path # None
       /\ IF r.src = r.dst \/ r.src = EmptyPath
          THEN faults' = faults ELSE faults' = faults + 1
C26_Step ==
    \A l \in Slots :
        (RuleStep(l) /\ OverwriteFailedOnly(l)) =>
            /\ fs'[NewEntry(l).dst] = fs[NewEntry(l).dst]
            /\ bfiles'[NewEntry(l).backup_path] = fs[NewEntry(l).dst]
            /\ pc'[l] = "apply"
            /\ idx'[l] = idx[l] + 1
C26_SingleFileRollback == [][C26_Step]_vars

\* C26 witness: apply has returned after a rule (src # dst) whose overwrite
\* failed and was rolled back: the destination has the content its entry
\* backed up, and a later rule was applied.
C26_Witness ==
    \E l \in Slots :
        /\ ApplyDone(l) /\ faults = 1
        /\ Len(session[l].backups) = 2
        /\ LET e == session[l].backups[1]
               r == games[l].rules[1]
           IN /\ r.src # r.dst /\ e.dst = r.dst
              /\ e.existed /\ e.backup_path # None
              /\ fs[e.dst] = orig[l][1]
              /\ fs[e.dst] # fs[r.src]
        /\ session[l].backups[2].dst # session[l].backups[1].dst
        /\ fs[session[l].backups[2].dst] # orig[l][2]

\* C27: degraded backup in apply.  In the step of apply over a rule it acts
\* on whose destination exists and whose backup copy fails (no backup file
\* is written), the overwrite is attempted all the same (it is made when
\* nothing else fails) and the entry recorded has existed = TRUE and no
\* backup_path.
BackupFailedStep(l) ==
    LET r == games[l].rules[idx[l] + 1]
    IN /\ pc[l] = "apply"
       /\ idx[l] < Len(games[l].rules)
       /\ idx'[l] = idx[l] + 1
       /\ r.enabled /\ fs[r.src] # Absent
       /\ fs[r.dst] # Absent
       /\ bfiles'[BackupPath(session[l].session_id, idx[l], Basename(r.dst))] = Absent
C27_Step ==
    \A l \in Slots :
        BackupFailedStep(l) =>
            LET r == games[l].rules[idx[l] + 1]
            IN /\ Len(session'[l].backups) = Len(session[l].backups) + 1
               /\ NewEntry(l) = BackupEntry(r.dst, TRUE, None)
               /\ (faults' = faults + 1 /\ r.src # r.dst) => fs'[r.dst] = fs[r.src]
C27_DegradedBackupRecorded == [][C27_Step]_vars

\* C27 witness: apply has returned a Session with a degraded entry whose
\* destination was overwritten with the source.
C27_Witness ==
    \E l \in Slots :
        /\ ApplyDone(l)
        /\ Len(session[l].backups) = 1
        /\ LET e == session[l].backups[1]
               r == games[l].rules[1]
           IN /\ e.existed /\ e.backup_path = None
              /\ e.dst = r.dst /\ r.src # r.dst
              /\ fs[r.dst] = fs[r.src] /\ fs[r.dst] # pre[l][r.dst]

\* C28: degraded backup in restore.  The step of restore over an entry with
\* existed = TRUE whose backup_path is None or whose backup file is no
\* longer there changes no file, fails in nothing and restore goes on.
DegradedEntryStep(l) ==
    /\ pc[l] = "restore"
    /\ idx[l] < Len(session[l].backups)
    /\ <<pc[l], idx[l], rst[l]>> # <<pc'[l], idx'[l], rst'[l]>>
    /\ LET b == session[l].backups[idx[l] + 1]
       IN /\ b.existed
          /\ b.backup_path = None \/ bfiles[b.backup_path] = Absent
C28_Step ==
    \A l \in Slots :
        DegradedEntryStep(l) =>
            /\ fs' = fs /\ dirs' = dirs
            /\ faults' = faults
            /\ pc'[l] = "restore" /\ rst'[l] = "running"
            /\ idx'[l] = idx[l] + 1
C28_DegradedRestoreLeaves == [][C28_Step]_vars

\* C28 witness: restore has returned for a Session with a degraded entry
\* and the destination still has the swapped content.
C28_Witness ==
    \E l \in Slots :
        /\ rst[l] = "returned"
        /\ Len(session[l].backups) = 1
        /\ LET e == session[l].backups[1]
           IN /\ e.existed /\ e.backup_path = None
              /\ fs[e.dst] # orig[l][1]
              /\ fs[e.dst] = fs[games[l].rules[1].src]

\* C29: the backups list has exactly one entry per rule apply acts on, in
\* the order of the rules: each step of the loop leaves the list as it is
\* for a skipped rule and otherwise appends one entry for the rule's
\* destination, also when a copy of the step failed.
C29_Step ==
    \A l \in Slots :
        (pc[l] = "apply" /\ idx[l] < Len(games[l].rules) /\ idx'[l] = idx[l] + 1)
        => LET r == games[l].rules[idx[l] + 1]
               old == session[l].backups
               new == session'[l].backups
           IN IF ~r.enabled \/ fs[r.src] = Absent
              THEN new = old
              ELSE /\ Len(new) = Len(old) + 1
                   /\ SubSeq(new, 1, Len(old)) = old
                   /\ new[Len(new)].dst = r.dst
                   /\ new[Len(new)].existed = (fs[r.dst] # Absent)
C29_OneEntryPerActedRule == [][C29_Step]_vars

\* C29 witness: apply has returned two entries in the order of its two
\* rules, for different destinations, one of the copies having failed.
C29_Witness ==
    \E l \in Slots :
        /\ ApplyDone(l) /\ faults = 1
        /\ Len(games[l].rules) = 2 /\ Len(session[l].backups) = 2
        /\ games[l].rules[1].dst # games[l].rules[2].dst
        /\ \A i \in 1..2 : session[l].backups[i].dst = games[l].rules[i].dst

\* C30: within one Session a backup file is named by the position of its
\* rule in the input list (skipped rules counted) and the destination's
\* file name, so no two entries of the Session share a backup_path, also
\* when two destinations in different directories have the same file name.
C30_BackupNamesDistinct ==
    \A l \in Slots :
        \A i \in 1..Len(session[l].backups) :
            LET e == session[l].backups[i]
            IN e.backup_path # None =>
                /\ e.backup_path[1] = session[l].session_id
                /\ e.backup_path[2] + 1 \in 1..Len(games[l].rules)
                /\ games[l].rules[e.backup_path[2] + 1].dst = e.dst
                /\ e.backup_path[3] = Basename(e.dst)
                /\ \A j \in 1..Len(session[l].backups) :
                       j # i => session[l].backups[j].backup_path # e.backup_path

\* C30 witness: a Session with backups of two destinations of the same file
\* name in different directories, the second rule following a skipped one
\* or not.
C30_Witness ==
    \E l \in Slots :
        /\ Len(session[l].backups) = 2
        /\ LET e1 == session[l].backups[1]
               e2 == session[l].backups[2]
           IN /\ e1.backup_path # None /\ e2.backup_path # None
              /\ e1.dst # e2.dst
              /\ Basename(e1.dst) = Basename(e2.dst)
              /\ bfiles[e1.backup_path] # bfiles[e2.backup_path]

\* C31: for launches started in any order, also a second one started while
\* the first process runs and sharing a destination with it, once every
\* launch has ended with its Session restored (no operation having failed,
\* the session ids being distinct), every destination file holds the
\* content, or the absence, it had before the first launch.
C31_ConcurrentLaunchesRestoreAll ==
    (/\ \A l \in Slots : Finished(l) /\ Dsts(l) # {}
     /\ \A l, m \in Slots : l # m => session[l].session_id # session[m].session_id
     /\ faults = 0)
    => \A l \in Slots : \A d \in Dsts(l) : fs[d] = pre[1][d]

\* C32: two Sessions with distinct ids whose applies touched the same
\* existing destination one after the other (S1 then S2), nothing having
\* failed: when S2 has been restored and then the restore of S1 walks its
\* entry, the destination gets back the content it had before S1's apply.
ReverseRestoreStep(l, m) ==
    /\ l < m
    /\ session[l].session_id # session[m].session_id
    /\ Len(session[l].backups) = 1 /\ Len(session[m].backups) = 1
    /\ session[l].backups[1].dst = session[m].backups[1].dst
    /\ session[l].backups[1].existed
    /\ rst[m] = "returned"
    /\ pc[l] = "restore" /\ idx[l] = 0 /\ idx'[l] = 1
    /\ faults' = 0
C32_Step ==
    \A l, m \in Slots :
        ReverseRestoreStep(l, m)
        => fs'[session[l].backups[1].dst] = pre[l][session[l].backups[1].dst]
C32_ReverseOrderRestores == [][C32_Step]_vars

\* C32 witness: both Sessions restored, S2 before S1 walked its entry (S1's
\* backup directory outlived S2's), the shared destination changed by both
\* applies and back at its first content.
C32_Witness ==
    /\ Finished(1) /\ Finished(2) /\ faults = 0
    /\ session[1].session_id # session[2].session_id
    /\ Len(session[1].backups) = 1 /\ Len(session[2].backups) = 1
    /\ session[1].backups[1].dst = session[2].backups[1].dst
    /\ session[1].backups[1].existed
    /\ orig[2][1] # orig[1][1]
    /\ games[2].rules[1].src # games[1].rules[1].src
    /\ fs[session[1].backups[1].dst] = pre[1][session[1].backups[1].dst]

\* C33: a step of restore(session) changes only destination paths listed in
\* the Session's entries and the Session's own backup directory: no other
\* file (a rule's source included), no directory, and no backup directory
\* or backup file of a Session with a different id.
RestoreStepOf(l) ==
    /\ pc[l] = "restore"
    /\ <<pc[l], idx[l], rst[l]>> # <<pc'[l], idx'[l], rst'[l]>>
C33_Step ==
    \A l \in Slots :
        RestoreStepOf(l) =>
            /\ fs' # fs =>
                   \A p \in Paths :
                       fs'[p] # fs[p] => \E e \in Entries(l) : e.dst = p
            /\ dirs' = dirs
            /\ sdirs' # sdirs =>
                   \A t \in 0..MaxTime :
                       t # session[l].session_id => (t \in sdirs' <=> t \in sdirs)
            /\ bfiles' # bfiles =>
                   \A b \in BackupPaths :
                       b[1] # session[l].session_id => bfiles'[b] = bfiles[b]
C33_RestoreFrame == [][C33_Step]_vars

\* C33 witness: a restore has returned after undoing its entry while the
\* rule's source file and another Session's backup are as they were.
C33_Witness ==
    \E l \in Slots : \E m \in Slots \ {l} :
        /\ rst[l] = "returned"
        /\ Len(session[l].backups) = 1
        /\ fs[session[l].backups[1].dst] = orig[l][1]
        /\ fs[games[l].rules[1].src] = pre[l][games[l].rules[1].src]
        /\ fs[games[l].rules[1].src] # Absent
        /\ session[m].session_id # session[l].session_id
        /\ session[m].session_id \in sdirs
        /\ \E e \in Entries(m) :
               e.backup_path # None /\ bfiles[e.backup_path] # Absent

\* C34: restore called again on a Session whose first restore returned
\* without a failure, nothing else having changed the files: no step of the
\* second call changes a file, a directory or a backup, and none fails.
C34_Step ==
    \A l \in Slots :
        (RestoreStepOf(l) /\ cleanupTried[l] /\ ~restoreFailed[l])
        => /\ fs' = fs /\ dirs' = dirs
           /\ sdirs' = sdirs /\ bfiles' = bfiles
           /\ faults' = faults
C34_SecondRestoreNoOp == [][C34_Step]_vars

\* C35: for the rule list [A to B, B to C] with A existing and no failing
\* operation, once apply has gone through both rules B and C hold the content
\* A had before apply and two entries are recorded (also when B did not
\* exist); once restore has returned B and C are as they were before apply.
Chain(l) ==
    LET rs == games[l].rules
    IN /\ Len(rs) = 2
       /\ rs[1].enabled /\ rs[2].enabled
       /\ rs[1].dst = rs[2].src
       /\ rs[1].src # rs[1].dst /\ rs[2].src # rs[2].dst
       /\ pre[l][rs[1].src] # Absent
C35_ChainedRules ==
    \A l \in Slots :
        (Chain(l) /\ faults = 0)
        => LET rs == games[l].rules
           IN /\ (ApplyDone(l) \/ pc[l] = "running")
                 => /\ fs[rs[1].dst] = pre[l][rs[1].src]
                    /\ fs[rs[2].dst] = pre[l][rs[1].src]
                    /\ Len(session[l].backups) = 2
              /\ rst[l] = "returned"
                 => /\ fs[rs[1].dst] = pre[l][rs[1].dst]
                    /\ fs[rs[2].dst] = pre[l][rs[2].dst]
C35_Witness ==
    \E l \in Slots :
        /\ Chain(l) /\ faults = 0
        /\ rst[l] = "returned"
        /\ games[l].rules[1].src # games[l].rules[2].dst
        /\ pre[l][games[l].rules[1].dst] = Absent
        /\ pre[l][games[l].rules[2].dst] # Absent
        /\ Len(session[l].backups) = 2
        /\ session[l].backups[2].backup_path # None
        /\ fs[games[l].rules[1].dst] = Absent
        /\ fs[games[l].rules[2].dst] = pre[l][games[l].rules[2].dst]

\* C36: every rule the launcher passes to launch_with_session has a non-empty
\* src and a non-empty dst, and no rule is passed for a config entry whose src
\* or dst is missing or empty (or that is no dict).
Blank(v) == v.t = "missing" \/ (v.t = "str" /\ v.s = <<>>)
Lacking(c) == ~c.isdict \/ Blank(c.src) \/ Blank(c.dst)
C36_NoEmptyPathPassed ==
    built.via # "none"
    => /\ \A i \in 1..Len(built.rules) :
              built.rules[i].src # <<>> /\ built.rules[i].dst # <<>>
       /\ Len(built.rules)
              <= Cardinality({i \in 1..Len(configs.items) : ~Lacking(configs.items[i])})
C36_Witness ==
    /\ built.via = "game_to_profiles"
    /\ Len(configs.items) = 1
    /\ configs.items[1].src = JsonValue("str", 0, <<" ", "a">>)
    /\ configs.items[1].dst = JsonValue("str", 0, <<"a", " ">>)
    /\ built.rules = <<[src |-> <<"a">>, dst |-> <<"a">>]>>
====
